---- MODULE Spec2Model ----
(***************************************************************************)
(* Model of go-bloomfilter's Rotator (src/filter/rotator/rotator.go) on    *)
(* top of the redis bitmap (src/bitmap/redis.go).                          *)
(*                                                                         *)
(* A filter is a bit vector of M bits; a pair is an immutable record       *)
(* {current, next} of filter ids; the Rotator's atomic.Value is the        *)
(* variable pair, NoPair until the first Store.  Caller goroutines run Add *)
(* and Exist step by step (Load, then one remote round trip per filter);   *)
(* the background goroutine runs handleRotating / rotate step by step.     *)
(*                                                                         *)
(* Spec and FairSpec are the Rotator with its callers.  TimedSpec is the   *)
(* rotation loop with the instants it reads and waits for.  StoreSpec and  *)
(* SoloSpec are BitStores on their own: NewRedis, SetBits, CheckBits and   *)
(* the backend's keys with their timeouts.  A specification leaves the     *)
(* variables of the others at their first value.                           *)
(***************************************************************************)
EXTENDS Integers, Sequences, FiniteSets, TLC

\* ------------------------------------------------------------------ bounds
\* Filters ever built (the initial two plus the rotations' new ones).
MaxFilters == 4
\* Calls of Add / Exist made in one run, over all callers; calls of SetBits /
\* CheckBits made in one run, over all BitStores.
MaxCalls == 2
\* The last instant of the wall clock in the timed view of the loop, in ticks.
MaxClock == 8
\* The largest rotation frequency, in ticks.
MaxFreq == 3
\* The last UnixNano reading NewRedis can take.
MaxStamp == 1

\* ---------------------------------------------------------------- constants
\* Redis.m: the size of every bit vector.
M == 4
\* The caller goroutines.
Callers == {"g1", "g2"}
\* The items callers add and look up.
Items == {1}
\* The nil pointer / nil error / no filter.
Nil == 0
\* No call has returned yet / no Add has run yet.
Never == Nil - 1

FilterIds == 1..MaxFilters

\* The BitStores built by NewRedis calls that are given the same logical name.
Stores == {"s1", "s2"}
\* The values of time.Now().UnixNano() a NewRedis call can read.
Stamps == 0..MaxStamp
\* The logical name the NewRedis calls are given.
Name == "bf"
\* NewRedis: fmt.Sprintf("%s_%d", key, time.Now().UnixNano())
RedisKey(name, nano) == <<name, nano>>
\* The remote keys NewRedis can generate.
Keys == {RedisKey(Name, n) : n \in Stamps}
\* The key of a BitStore that is not built yet.
NoKey == <<>>
\* The positions callers hand to SetBits / CheckBits: bit 0, and two positions
\* that are congruent modulo M.
Positions == {0, 1, M + 1}
\* The lists of positions callers hand to SetBits / CheckBits: the empty
\* list, and the lists of one and of two positions.
Inputs ==
    {<<>>} \cup {<<p>> : p \in Positions}
           \cup {<<p, q>> : p \in Positions, q \in Positions}

\* The k = 2 positions the filter's hashes give an item, before folding mod M.
\* Distinct items get disjoint positions: no false positives among Items.
Locs(x) == <<2 * (x - 1) + M, 2 * (x - 1) + 1>>

\* The error a failed round trip on filter f's bit vector returns.
ErrOf(f) == f

VARIABLES
    ctor,       \* NewRotator's position
    ctorErr,    \* NewRotator: genFilterPair returned an error
    nFilters,   \* filters built so far; filter ids are 1..nFilters
    bits,       \* bits[f]: the set of indices set in filter f's bit vector
    isNext,     \* isNext[f]: the IsNextFilter value filter f was built with
    pair,       \* Rotator.pair: the visible pair, NoPair before the first Store
    stored,     \* history: every pair a Store has made visible
    rotpc,      \* the rotation goroutine's position
    timer,      \* the one-shot timer of handleRotating
    newF,       \* rotate(): newFilter
    oldPair,    \* rotate(): oldPair
    cancelled,  \* r.ctx is done
    call,       \* call[c]: caller c's current (or last) call and its locals
    nCalls,     \* calls started so far
    lastAdd,    \* history: lastAdd[x] is the value of rots at the latest
                \* step of any Add(x), Never if there was none
    rots,       \* history: the Stores rotate() has made
    rotErr,     \* rotate(): err, which it returns (TRUE: non-nil), until
                \* handleRotating goes round its loop
    clock,      \* the wall clock, time.Now(), in ticks
    freq,       \* cfg.Freq, in ticks
    target,     \* handleRotating: next, the instant the timer is armed for
    armedAt,    \* handleRotating: current, the instant the timer was armed at
    builtAt,    \* builtAt[f]: the instant filter f's bit vector was created
    redis,      \* NewRedis: redis[s] is BitStore s and its construction
    remote,     \* the backend: remote[k] is the value stored under key k
    last        \* the latest SetBits / CheckBits call and what it returned

vars == <<ctor, ctorErr, nFilters, bits, isNext, pair, stored, rotpc, timer,
          newF, oldPair, cancelled, call, nCalls, lastAdd, rots, rotErr,
          clock, freq, target, armedAt, builtAt, redis, remote, last>>

rotVars == <<rotpc, timer, newF, oldPair, rots, rotErr>>
ctorVars == <<ctor, ctorErr>>
filterVars == <<nFilters, bits, isNext>>
callVars == <<call, nCalls, lastAdd>>
clockVars == <<clock, freq, target, armedAt, builtAt>>
storeVars == <<redis, remote, last>>

\* ------------------------------------------------------------ bit vectors
\* The indices a batch addresses: loc % r.m for every loc.
Fold(locs) == {locs[i] % M : i \in 1..Len(locs)}

\* The indices the first j commands of the batch address.
FoldPrefix(locs, j) == {locs[i] % M : i \in 1..j}

\* Mutant of ExecTrips: Exec goes to the backend for an empty batch too.
ExecTrips_Always(locs) == 1

\* pl.Exec(r.ctx): the round trips it makes.  One for the whole batch; none
\* for an empty batch, for which Exec returns nil at once.
ExecTrips(locs) == IF Len(locs) = 0 THEN 0 ELSE 1

\* Redis.SetBits on a vector b: the outcomes of one pipelined batch.  On
\* success every folded position is 1.  When Exec or a Result fails the
\* server has applied some prefix of the batch.
SetBits(b, locs) ==
    {[bits |-> b \cup Fold(locs), err |-> FALSE]}
      \cup IF ExecTrips(locs) = 0 THEN {}
           ELSE {[bits |-> b \cup FoldPrefix(locs, j), err |-> TRUE] : j \in 0..Len(locs)}

\* Mutant of CheckFrom: only the first result of the batch is looked at.
CheckFrom_FirstOnly(b, locs, i) ==
    IF Len(locs) = 0 THEN TRUE ELSE (locs[1] % M) \in b

\* The result loop of Redis.CheckBits from result i on: the first 0 returns
\* false, the end of the list returns true.
RECURSIVE CheckFrom(_, _, _)
CheckFrom(b, locs, i) ==
    IF i > Len(locs) THEN TRUE
    ELSE IF (locs[i] % M) \notin b THEN FALSE
    ELSE CheckFrom(b, locs, i + 1)

\* Redis.CheckBits on a vector b: the outcomes of one pipelined batch.
CheckBits(b, locs) ==
    {[ok |-> CheckFrom(b, locs, 1), err |-> FALSE]}
      \cup IF ExecTrips(locs) = 0 THEN {} ELSE {[ok |-> FALSE, err |-> TRUE]}

\* What CheckBits answers when the round trip succeeds.
AllSet(b, locs) == CheckFrom(b, locs, 1)

\* ---------------------------------------------------------------- filters
\* Filter.Add(x) on a filter whose bit vector is b: SetBits of x's positions.
FilterAdd(b, x) == SetBits(b, Locs(x))

\* Filter.Exist(x) on a filter whose bit vector is b: CheckBits of x's
\* positions.
FilterExist(b, x) == CheckBits(b, Locs(x))

\* The filter answers that it holds x.
Holds(b, x) == AllSet(b, Locs(x))

\* ------------------------------------------------------------------ pairs
\* &filterPair{current: c, next: n}
FilterPair(c, n) == [current |-> c, next |-> n]

\* The unset atomic.Value / the nil *filterPair.
NoPair == FilterPair(Nil, Nil)

\* Mutant of NewPair: the old current is kept and the old next is dropped.
NewPair_KeepsCurrent(old, f) == FilterPair(old.current, f)

\* Mutant of NewPair: the old current comes back as the new next.
NewPair_Swapped(old, f) == FilterPair(old.next, old.current)

\* rotate(): the pair built from oldPair and the new filter.
NewPair(old, f) == FilterPair(old.next, f)

\* A caller that is not in a call and has made none.
NoCall ==
    [pc |-> "idle", op |-> "none", x |-> Nil, p |-> NoPair, err |-> Nil,
     ret |-> Nil, res |-> FALSE, wcur |-> Nil, wnext |-> Nil, rd |-> Nil,
     retAt |-> Never, seenOk |-> FALSE, seenPart |-> FALSE]

\* A BitStore no NewRedis call has built yet.
NoStore == [pc |-> "new", key |-> NoKey, opt |-> FALSE]

\* A key the backend does not hold.
NoValue == [exists |-> FALSE, bits |-> {}, ttl |-> FALSE]

\* No SetBits / CheckBits call has returned yet.
NoOp ==
    [op |-> "none", s |-> "none", key |-> NoKey, locs |-> <<>>, ok |-> FALSE,
     err |-> FALSE, trips |-> 0, saw |-> {}, after |-> {}, live |-> FALSE]

\* Nothing is constructed yet.
RotatorInit ==
    /\ ctor = "start"
    /\ ctorErr = FALSE
    /\ nFilters = 0
    /\ bits = [f \in FilterIds |-> {}]
    /\ isNext = [f \in FilterIds |-> FALSE]
    /\ pair = NoPair
    /\ stored = {}
    /\ rotpc = "off"
    /\ timer = "none"
    /\ newF = Nil
    /\ oldPair = NoPair
    /\ cancelled = FALSE
    /\ call = [c \in Callers |-> NoCall]
    /\ nCalls = 0
    /\ lastAdd = [x \in Items |-> Never]
    /\ rots = 0
    /\ rotErr = FALSE

\* The clock at its first instant, cfg.Freq one of 1..MaxFreq, no timer armed
\* yet, no bit vector created yet.
ClockInit ==
    /\ clock = 0
    /\ freq \in 1..MaxFreq
    /\ target = Never
    /\ armedAt = Never
    /\ builtAt = [f \in FilterIds |-> Never]

\* The clock is not looked at: instants are left out.
ClockOff ==
    /\ clock = 0
    /\ freq = 1
    /\ target = Never
    /\ armedAt = Never
    /\ builtAt = <<>>

\* No NewRedis call has been made, the backend holds no key.
StoreInit ==
    /\ redis = [s \in Stores |-> NoStore]
    /\ remote = [k \in Keys |-> NoValue]
    /\ last = NoOp

\* No BitStore is looked at on its own.
StoreOff ==
    /\ redis = <<>>
    /\ remote = <<>>
    /\ last = <<>>

Init == RotatorInit /\ ClockOff /\ StoreOff

\* ------------------------------------------------------------ NewRotator
\* genFilter(isNext) succeeding: the constructor returns a filter on a fresh,
\* empty bit vector, built with IsNextFilter = isNext.
GenFilterOk(n) ==
    /\ nFilters < MaxFilters
    /\ nFilters' = nFilters + 1
    /\ bits' = [bits EXCEPT ![nFilters + 1] = {}]
    /\ isNext' = [isNext EXCEPT ![nFilters + 1] = n]

\* Mutant of CtorAfterNext: the error of genFilter(true) is not checked.
CtorAfterNext_Unchecked(ok) == "built"

\* genFilterPair: where NewRotator goes after genFilter(true) answered.
CtorAfterNext(ok) == IF ok THEN "built" ELSE "failed"

\* genFilterPair: current, err := r.genFilter(false)
NewGenCurrent ==
    /\ ctor = "start"
    /\ \E ok \in BOOLEAN :
         IF ok
         THEN GenFilterOk(FALSE) /\ ctor' = "gen_next" /\ UNCHANGED ctorErr
         ELSE ctor' = "failed" /\ ctorErr' = TRUE /\ UNCHANGED filterVars
    /\ UNCHANGED <<pair, stored, rotVars, cancelled, callVars>>
    /\ UNCHANGED <<clockVars, storeVars>>

\* genFilterPair: next, err := r.genFilter(true)
NewGenNext ==
    /\ ctor = "gen_next"
    /\ \E ok \in BOOLEAN :
         /\ ctor' = CtorAfterNext(ok)
         /\ IF ok
            THEN GenFilterOk(TRUE) /\ UNCHANGED ctorErr
            ELSE ctorErr' = TRUE /\ UNCHANGED filterVars
    /\ UNCHANGED <<pair, stored, rotVars, cancelled, callVars>>
    /\ UNCHANGED <<clockVars, storeVars>>

\* genFilterPair returns &filterPair{current, next}; NewRotator: r.pair.Store(p)
NewStore ==
    /\ ctor = "built"
    /\ pair' = FilterPair(1, 2)
    /\ stored' = stored \cup {pair'}
    /\ ctor' = "stored"
    /\ UNCHANGED <<ctorErr, filterVars, rotVars, cancelled, callVars>>
    /\ UNCHANGED <<clockVars, storeVars>>

\* Mutant of CtorGoAt: the goroutine is started before the Store.
CtorGoAt_BeforeStore == "built"

\* NewRotator's position when it starts the rotation goroutine.
CtorGoAt == "stored"

\* NewRotator: go r.handleRotating(cfg.Freq); return r, nil
NewGo ==
    /\ ctor = CtorGoAt
    /\ rotpc = "off"
    /\ rotpc' = "arm"
    /\ ctor' = IF ctor = "stored" THEN "returned" ELSE ctor
    /\ UNCHANGED <<ctorErr, filterVars, pair, stored, timer, newF, oldPair,
                   rots, rotErr, cancelled, callVars>>
    /\ UNCHANGED <<clockVars, storeVars>>

\* The context handed to NewRotator is cancelled.
Cancel ==
    /\ ~cancelled
    /\ cancelled' = TRUE
    /\ UNCHANGED <<ctorVars, filterVars, pair, stored, rotVars, callVars>>
    /\ UNCHANGED <<clockVars, storeVars>>

\* -------------------------------------------------------- handleRotating
\* handleRotating, head of the loop (the value rotate() returned is dropped):
\* next := current.Add(freq).Truncate(freq);
\* timer := time.NewTimer(next.Sub(current)).  The duration is positive, so
\* the new timer has not fired yet.
Arm ==
    /\ rotpc = "arm"
    /\ timer' = "armed"
    /\ rotpc' = "select"
    /\ rotErr' = FALSE
    /\ UNCHANGED <<ctorVars, filterVars, pair, stored, newF, oldPair, rots,
                   cancelled, callVars>>
    /\ UNCHANGED <<clockVars, storeVars>>

\* The timer's duration elapses: timer.C becomes ready.  (No rotation is
\* scheduled once MaxFilters filters exist.)
TimerFire ==
    /\ timer = "armed"
    /\ nFilters < MaxFilters
    /\ timer' = "fired"
    /\ UNCHANGED <<ctorVars, filterVars, pair, stored, rotpc, newF, oldPair,
                   rots, rotErr, cancelled, callVars>>
    /\ UNCHANGED <<clockVars, storeVars>>

\* select: case <-timer.C: r.rotate()
SelectTimer ==
    /\ rotpc = "select"
    /\ timer = "fired"
    /\ timer' = "none"
    /\ rotpc' = "gen"
    /\ UNCHANGED <<ctorVars, filterVars, pair, stored, newF, oldPair, rots,
                   rotErr, cancelled, callVars>>
    /\ UNCHANGED <<clockVars, storeVars>>

\* Mutant of SelectDone: a break that leaves the select, not the loop.
SelectDone_Break ==
    /\ rotpc = "select"
    /\ cancelled
    /\ rotpc' = "arm"
    /\ UNCHANGED <<ctorVars, filterVars, pair, stored, timer, newF, oldPair,
                   rots, rotErr, cancelled, callVars>>
    /\ UNCHANGED <<clockVars, storeVars>>

\* select: case <-r.ctx.Done(): return.  When timer.C is ready too, select
\* takes either case.
SelectDone ==
    /\ rotpc = "select"
    /\ cancelled
    /\ rotpc' = "stopped"
    /\ UNCHANGED <<ctorVars, filterVars, pair, stored, timer, newF, oldPair,
                   rots, rotErr, cancelled, callVars>>
    /\ UNCHANGED <<clockVars, storeVars>>

\* Mutant of RotateFailed: handleRotating returns on rotate()'s error.
RotateFailed_Stops ==
    /\ rotErr' = TRUE
    /\ rotpc' = "stopped"
    /\ UNCHANGED <<filterVars, pair, stored, timer, newF, oldPair, rots>>

\* rotate(): genFilter returned an error; rotate returns it and
\* handleRotating, which ignores it, goes round its loop.
RotateFailed ==
    /\ rotErr' = TRUE
    /\ rotpc' = "arm"
    /\ UNCHANGED <<filterVars, pair, stored, timer, newF, oldPair, rots>>

\* rotate(): newFilter, err := r.genFilter(true)
RotateGen ==
    /\ rotpc = "gen"
    /\ \E ok \in BOOLEAN :
         IF ok
         THEN /\ GenFilterOk(TRUE)
              /\ newF' = nFilters + 1
              /\ rotpc' = "load"
              /\ rotErr' = FALSE
              /\ UNCHANGED <<pair, stored, timer, oldPair, rots>>
         ELSE RotateFailed
    /\ UNCHANGED <<ctorVars, cancelled, callVars>>
    /\ UNCHANGED <<clockVars, storeVars>>

\* Mutant of RotateLoad: the pair loaded by the first rotation is kept and
\* used by the later ones.
RotateLoad_Cached ==
    /\ rotpc = "load"
    /\ IF pair = NoPair
       THEN rotpc' = "panic" /\ UNCHANGED oldPair
       ELSE rotpc' = "store" /\ oldPair' = IF oldPair = NoPair THEN pair ELSE oldPair
    /\ UNCHANGED <<ctorVars, filterVars, pair, stored, timer, newF, rots,
                   rotErr, cancelled, callVars>>
    /\ UNCHANGED <<clockVars, storeVars>>

\* rotate(): oldPair := r.pair.Load().(*filterPair); the type assertion
\* panics on an unset Value.
RotateLoad ==
    /\ rotpc = "load"
    /\ IF pair = NoPair
       THEN rotpc' = "panic" /\ UNCHANGED oldPair
       ELSE rotpc' = "store" /\ oldPair' = pair
    /\ UNCHANGED <<ctorVars, filterVars, pair, stored, timer, newF, rots,
                   rotErr, cancelled, callVars>>
    /\ UNCHANGED <<clockVars, storeVars>>

\* rotate(): r.pair.Store(newPair); return err (nil); back to the head of
\* the loop.
RotateStore ==
    /\ rotpc = "store"
    /\ pair' = NewPair(oldPair, newF)
    /\ stored' = stored \cup {pair'}
    /\ rots' = rots + 1
    /\ rotpc' = "arm"
    /\ UNCHANGED <<ctorVars, filterVars, timer, newF, oldPair, rotErr, cancelled,
                   callVars>>
    /\ UNCHANGED <<clockVars, storeVars>>

\* ------------------------------------------------------------ Add / Exist
\* Mutant of AddCurrentTarget: the first write goes to next as well.
AddCurrentTarget_Next(c) == call[c].p.next

\* Mutant of AddNextTarget: the pair is loaded again for the second write.
AddNextTarget_Reload(c) == pair.next

\* Add: the filter written first, and the filter written second.
AddCurrentTarget(c) == call[c].p.current
AddNextTarget(c) == call[c].p.next

\* Exist: the filter read.
ExistTarget(c) == call[c].p.current

\* Mutant of AfterCurrent: the error of the first write is not checked.
AfterCurrent_Unchecked(e) == "add_next"

\* Add: after err := p.current.Add(data): return err, or go on to p.next.
AfterCurrent(e) == IF e # Nil THEN "idle" ELSE "add_next"

\* Mutant of AfterNextBits: a failed second write undoes the first one.
AfterNextBits_Rollback(c, f, o) ==
    IF o.err
    THEN [bits EXCEPT ![f] = o.bits,
                      ![call[c].wcur] = @ \ Fold(Locs(call[c].x))]
    ELSE [bits EXCEPT ![f] = o.bits]

\* Add: the bit vectors after p.next.Add(data) had outcome o on filter f.
AfterNextBits(c, f, o) == [bits EXCEPT ![f] = o.bits]

\* Some successful (or partly applied) Add(x) that loaded the pair now visible
\* has returned.
AddReturned(x, partial) ==
    \E d \in Callers :
        /\ call[d].op = "Add" /\ call[d].pc = "idle" /\ call[d].x = x
        /\ call[d].p = pair
        /\ call[d].err = Nil
        /\ (call[d].ret # Nil) = partial

\* Add: p := r.pair.Load().(*filterPair)
AddLoad(c, x) ==
    /\ ctor = "returned"
    /\ call[c].pc = "idle"
    /\ nCalls < MaxCalls
    /\ nCalls' = nCalls + 1
    /\ call' = [call EXCEPT ![c] =
                  [NoCall EXCEPT !.op = "Add", !.x = x, !.p = pair,
                                 !.pc = IF pair = NoPair THEN "panic" ELSE "add_cur"]]
    /\ lastAdd' = [lastAdd EXCEPT ![x] = rots]
    /\ UNCHANGED <<ctorVars, filterVars, pair, stored, rotVars, cancelled>>
    /\ UNCHANGED <<clockVars, storeVars>>

\* Add: err := p.current.Add(data); if err != nil { return err }
AddCurrent(c) ==
    /\ call[c].pc = "add_cur"
    /\ LET f == AddCurrentTarget(c) IN
       \E o \in FilterAdd(bits[f], call[c].x) :
         LET e == IF o.err THEN ErrOf(f) ELSE Nil IN
         /\ bits' = [bits EXCEPT ![f] = o.bits]
         /\ call' = [call EXCEPT ![c].err = e, ![c].wcur = f,
                                 ![c].pc = AfterCurrent(e),
                                 ![c].ret = e,
                                 ![c].retAt = IF AfterCurrent(e) = "idle" THEN rots ELSE Never]
    /\ lastAdd' = [lastAdd EXCEPT ![call[c].x] = rots]
    /\ UNCHANGED <<ctorVars, nFilters, isNext, pair, stored, rotVars, cancelled,
                   nCalls>>
    /\ UNCHANGED <<clockVars, storeVars>>

\* Add: return p.next.Add(data)
AddNext(c) ==
    /\ call[c].pc = "add_next"
    /\ LET f == AddNextTarget(c) IN
       \E o \in FilterAdd(bits[f], call[c].x) :
         /\ bits' = AfterNextBits(c, f, o)
         /\ call' = [call EXCEPT ![c].wnext = f, ![c].pc = "idle",
                                 ![c].ret = IF o.err THEN ErrOf(f) ELSE Nil,
                                 ![c].retAt = rots]
    /\ lastAdd' = [lastAdd EXCEPT ![call[c].x] = rots]
    /\ UNCHANGED <<ctorVars, nFilters, isNext, pair, stored, rotVars, cancelled,
                   nCalls>>
    /\ UNCHANGED <<clockVars, storeVars>>

\* Exist: r.pair.Load().(*filterPair)
ExistLoad(c, x) ==
    /\ ctor = "returned"
    /\ call[c].pc = "idle"
    /\ nCalls < MaxCalls
    /\ nCalls' = nCalls + 1
    /\ call' = [call EXCEPT ![c] =
                  [NoCall EXCEPT !.op = "Exist", !.x = x, !.p = pair,
                                 !.seenOk = AddReturned(x, FALSE),
                                 !.seenPart = AddReturned(x, TRUE),
                                 !.pc = IF pair = NoPair THEN "panic" ELSE "ex_read"]]
    /\ UNCHANGED <<ctorVars, filterVars, pair, stored, rotVars, cancelled, lastAdd>>
    /\ UNCHANGED <<clockVars, storeVars>>

\* Exist: return <pair>.current.Exist(data)
ExistRead(c) ==
    /\ call[c].pc = "ex_read"
    /\ LET f == ExistTarget(c) IN
       \E o \in FilterExist(bits[f], call[c].x) :
         call' = [call EXCEPT ![c].rd = f, ![c].pc = "idle", ![c].res = o.ok,
                              ![c].ret = IF o.err THEN ErrOf(f) ELSE Nil]
    /\ UNCHANGED <<ctorVars, filterVars, pair, stored, rotVars, cancelled, nCalls,
                   lastAdd>>
    /\ UNCHANGED <<clockVars, storeVars>>

Next ==
    \/ NewGenCurrent
    \/ NewGenNext
    \/ NewStore
    \/ NewGo
    \/ Cancel
    \/ Arm
    \/ TimerFire
    \/ SelectTimer
    \/ SelectDone
    \/ RotateGen
    \/ RotateLoad
    \/ RotateStore
    \/ \E c \in Callers, x \in Items : AddLoad(c, x)
    \/ \E c \in Callers : AddCurrent(c)
    \/ \E c \in Callers : AddNext(c)
    \/ \E c \in Callers, x \in Items : ExistLoad(c, x)
    \/ \E c \in Callers : ExistRead(c)

Spec == Init /\ [][Next]_vars

\* The rotation goroutine keeps running, its remote calls return, and a
\* select that is offered the done context again and again takes it.
FairSpec ==
    /\ Spec
    /\ WF_vars(Arm) /\ WF_vars(RotateGen) /\ WF_vars(RotateLoad)
    /\ WF_vars(RotateStore)
    /\ SF_vars(SelectDone)

\* ------------------------------------------- handleRotating, with the clock
\* The rotation loop again, now with the instants it reads and waits for.  An
\* instant is a number of ticks since the zero time.  The goroutine and its
\* remote calls take no time: the clock stands still while the loop has a
\* step to take, so a rotation happens at the instant its timer is due.

\* time.Time.Truncate(d): t rounded down to a multiple of d since the zero
\* time; t itself when d <= 0.
Truncate(t, d) == IF d <= 0 THEN t ELSE t - (t % d)

\* Mutant of TimerTarget: the timer waits one whole frequency.
TimerTarget_StartPlusFreq(t, f) == t + f

\* handleRotating: next := current.Add(freq).Truncate(freq)
TimerTarget(t, f) == Truncate(t + f, f)

\* RedisSetExpireTTL(d) as the filter factory configures it: the least d with
\* d >= 2 * cfg.Freq.
Ttl == 2 * freq

\* The backend has purged filter f's bit vector: the TTL set when it was
\* created has run out.
Expired(f) == builtAt[f] # Never /\ clock > builtAt[f] + Ttl

\* What the timed view leaves alone.
timedRest ==
    <<ctorVars, bits, isNext, stored, timer, newF, oldPair, rotErr, callVars,
      storeVars>>

\* Time passes: before NewRotator is called, while the loop waits in its
\* select for a timer that is not due, and after the loop has returned.
Tick ==
    /\ clock < MaxClock
    /\ \/ rotpc \in {"off", "stopped"}
       \/ rotpc = "select" /\ clock < target /\ ~cancelled
    /\ clock' = clock + 1
    /\ UNCHANGED <<freq, target, armedAt, builtAt, nFilters, pair, rotpc, rots,
                   cancelled, timedRest>>

\* NewRotator succeeds at the instant clock: both filters are built, the
\* pair is stored and the goroutine is started.
StartAt ==
    /\ rotpc = "off"
    /\ nFilters = 0
    /\ nFilters' = 2
    /\ builtAt' = [builtAt EXCEPT ![1] = clock, ![2] = clock]
    /\ pair' = FilterPair(1, 2)
    /\ rotpc' = "arm"
    /\ UNCHANGED <<clock, freq, target, armedAt, rots, cancelled, timedRest>>

\* handleRotating, head of the loop: current := time.Now();
\* next := current.Add(freq).Truncate(freq);
\* timer := time.NewTimer(next.Sub(current))
ArmAt ==
    /\ rotpc = "arm"
    /\ armedAt' = clock
    /\ target' = TimerTarget(clock, freq)
    /\ rotpc' = "select"
    /\ UNCHANGED <<clock, freq, builtAt, nFilters, pair, rots, cancelled,
                   timedRest>>

\* select: case <-timer.C, once the timer is due: r.rotate() is called.
FireAt ==
    /\ rotpc = "select"
    /\ clock >= target
    /\ nFilters < MaxFilters
    /\ rotpc' = "gen"
    /\ UNCHANGED <<clock, freq, target, armedAt, builtAt, nFilters, pair, rots,
                   cancelled, timedRest>>

\* rotate(): genFilter(true) fails and the pair stays, or it builds a filter
\* at this instant and the new pair is stored.
RotateAt ==
    /\ rotpc = "gen"
    /\ \E ok \in BOOLEAN :
         IF ok
         THEN /\ nFilters' = nFilters + 1
              /\ builtAt' = [builtAt EXCEPT ![nFilters + 1] = clock]
              /\ pair' = NewPair(pair, nFilters + 1)
              /\ rots' = rots + 1
         ELSE UNCHANGED <<builtAt, nFilters, pair, rots>>
    /\ rotpc' = "arm"
    /\ UNCHANGED <<clock, freq, target, armedAt, cancelled, timedRest>>

TimedInit == RotatorInit /\ ClockInit /\ StoreOff

TimedNext ==
    \/ Tick
    \/ StartAt
    \/ ArmAt
    \/ FireAt
    \/ RotateAt
    \/ Cancel
    \/ SelectDone

TimedSpec == TimedInit /\ [][TimedNext]_vars

\* ---------------------------------------------------------------- NewRedis
\* BitStores on their own: NewRedis calls with one logical name, and
\* SetBits / CheckBits calls on the BitStores they returned.  Every call is one
\* round trip and one step.

\* What the BitStores leave alone.
storeRest ==
    <<ctorVars, filterVars, pair, stored, rotVars, cancelled, call, lastAdd,
      freq, target, armedAt, builtAt>>

\* The wall clock moves on to its next UnixNano reading.
StampTick ==
    /\ clock < MaxStamp
    /\ clock' = clock + 1
    /\ UNCHANGED <<storeVars, nCalls, storeRest>>

\* NewRedis: r := &Redis{..., key: fmt.Sprintf("%s_%d", key,
\* time.Now().UnixNano()), m: m}, called with or without RedisSetExpireTTL.
NewRedisKey(s, withTtl) ==
    /\ redis[s].pc = "new"
    /\ redis' = [redis EXCEPT ![s] =
                   [pc |-> "clear", key |-> RedisKey(Name, clock), opt |-> withTtl]]
    /\ UNCHANGED <<clock, remote, last, nCalls, storeRest>>

\* NewRedis: r.client.SetBit(r.ctx, r.key, 0, 0), whose result is dropped:
\* the backend applied it, or the command failed.
ClearOutcomes == BOOLEAN

\* NewRedis: r.client.SetBit(r.ctx, r.key, 0, 0).  Applied, it creates the
\* key if the backend does not hold it and writes 0 to bit 0.
NewRedisClear(s) ==
    /\ redis[s].pc = "clear"
    /\ LET k == redis[s].key IN
       \E applied \in ClearOutcomes :
         remote' = IF applied
                   THEN [remote EXCEPT ![k] = [exists |-> TRUE,
                                               bits |-> @.bits \ {0},
                                               ttl |-> @.ttl]]
                   ELSE remote
    /\ redis' = [redis EXCEPT ![s].pc = IF redis[s].opt THEN "opts" ELSE "ready"]
    /\ UNCHANGED <<clock, last, nCalls, storeRest>>

\* NewRedis: opt(r) for RedisSetExpireTTL(d): r.client.Expire(r.ctx, r.key, d)
\* and res.Result(), of which only the error is looked at.  Expire sets the
\* timeout of a key the backend holds and does nothing for one it does not
\* hold, without an error either way.  On an error NewRedis returns nil, err.
NewRedisOpts(s) ==
    /\ redis[s].pc = "opts"
    /\ LET k == redis[s].key IN
       \E ok \in BOOLEAN :
         IF ok
         THEN /\ remote' = IF remote[k].exists
                           THEN [remote EXCEPT ![k].ttl = TRUE]
                           ELSE remote
              /\ redis' = [redis EXCEPT ![s].pc = "ready"]
         ELSE /\ redis' = [redis EXCEPT ![s].pc = "failed"]
              /\ UNCHANGED remote
    /\ UNCHANGED <<clock, last, nCalls, storeRest>>

\* The timeout of key k runs out: the backend deletes the key.
KeyExpires(k) ==
    /\ remote[k].exists /\ remote[k].ttl
    /\ remote' = [remote EXCEPT ![k] = NoValue]
    /\ last' = IF last.key = k THEN [last EXCEPT !.live = FALSE] ELSE last
    /\ UNCHANGED <<clock, redis, nCalls, storeRest>>

\* Redis.SetBits(locs) on BitStore s.  SETBIT creates a key the backend does
\* not hold, with no timeout, and keeps the timeout of one it holds.
SetBitsCall(s, locs) ==
    /\ redis[s].pc = "ready"
    /\ nCalls < MaxCalls
    /\ nCalls' = nCalls + 1
    /\ LET k == redis[s].key IN
       \E o \in SetBits(remote[k].bits, locs) :
         /\ remote' = [remote EXCEPT ![k] =
                         [exists |-> @.exists \/ o.bits # {},
                          bits |-> o.bits, ttl |-> @.ttl]]
         /\ last' = [op |-> "SetBits", s |-> s, key |-> k, locs |-> locs,
                     ok |-> ~o.err, err |-> o.err, trips |-> ExecTrips(locs),
                     saw |-> remote[k].bits, after |-> remote'[k].bits,
                     live |-> TRUE]
    /\ UNCHANGED <<clock, redis, storeRest>>

\* Redis.CheckBits(locs) on BitStore s.  GETBIT reads 0 from a key the
\* backend does not hold.
CheckBitsCall(s, locs) ==
    /\ redis[s].pc = "ready"
    /\ nCalls < MaxCalls
    /\ nCalls' = nCalls + 1
    /\ LET k == redis[s].key IN
       \E o \in CheckBits(remote[k].bits, locs) :
         /\ UNCHANGED remote
         /\ last' = [op |-> "CheckBits", s |-> s, key |-> k, locs |-> locs,
                     ok |-> o.ok, err |-> o.err, trips |-> ExecTrips(locs),
                     saw |-> remote[k].bits, after |-> remote'[k].bits,
                     live |-> TRUE]
    /\ UNCHANGED <<clock, redis, storeRest>>

\* The steps of the BitStores in S and of the backend.
StoreNextOf(S) ==
    \/ StampTick
    \/ \E s \in S, withTtl \in BOOLEAN : NewRedisKey(s, withTtl)
    \/ \E s \in S : NewRedisClear(s)
    \/ \E s \in S : NewRedisOpts(s)
    \/ \E k \in Keys : KeyExpires(k)
    \/ \E s \in S, locs \in Inputs : SetBitsCall(s, locs)
    \/ \E s \in S, locs \in Inputs : CheckBitsCall(s, locs)

\* Two BitStores of one logical name.
StoreNext == StoreNextOf(Stores)

StoresInit == RotatorInit /\ ClockOff /\ StoreInit

StoreSpec == StoresInit /\ [][StoreNext]_vars

\* One BitStore on its own.
SoloNext == StoreNextOf({"s1"})

SoloSpec == StoresInit /\ [][SoloNext]_vars

\* ================================================================ claims
\* A call that has returned.
Returned(c, op) == call[c].op = op /\ call[c].pc = "idle"

\* C1: every call works on one whole pair.  The pair a call loaded was made
\* visible by a Store; an Add writes that pair's current and then that pair's
\* next and nothing else; an Exist reads that pair's current; and the visible
\* pair is unset or a pair a Store made visible, whose filters are built.
C1_WholePair ==
    /\ pair \in stored \cup {NoPair}
    /\ \A q \in stored : q.current \in 1..nFilters /\ q.next \in 1..nFilters
    /\ \A c \in Callers :
         call[c].op # "none" =>
           /\ call[c].p \in stored
           /\ call[c].wcur \in {Nil, call[c].p.current}
           /\ call[c].wnext \in {Nil, call[c].p.next}
           /\ call[c].rd \in {Nil, call[c].p.current}
           /\ (Returned(c, "Add") /\ call[c].err = Nil) =>
                (call[c].wcur = call[c].p.current /\ call[c].wnext = call[c].p.next)
           /\ (Returned(c, "Exist") => call[c].rd = call[c].p.current)

\* C1 witness: an Add wrote both filters of the pair it loaded although a
\* rotation replaced the visible pair meanwhile.
C1_Witness ==
    \E c \in Callers :
        /\ Returned(c, "Add") /\ call[c].wnext # Nil
        /\ call[c].p # pair
        /\ call[c].wcur = call[c].p.current /\ call[c].wnext = call[c].p.next

\* C2: an Exist(x) that loads the pair after an Add(x) that loaded the same
\* pair returned nil, and meets no I/O error, returns true.
C2_ExistAfterAdd ==
    \A c \in Callers :
        (Returned(c, "Exist") /\ call[c].seenOk /\ call[c].ret = Nil) => call[c].res

\* C2 witness: such an Exist has returned true.
C2_Witness ==
    \E c \in Callers :
        Returned(c, "Exist") /\ call[c].seenOk /\ call[c].ret = Nil /\ call[c].res

\* C3: once the first rotation after a successful Add(x) has completed, the
\* new current filter contains x.
C3_SurvivesOneRotation ==
    \A c \in Callers :
        (Returned(c, "Add") /\ call[c].ret = Nil /\ rots = call[c].retAt + 1)
          => Holds(bits[pair.current], call[c].x)

\* C4: when two rotations have completed since the last step of any Add(x),
\* the visible current filter holds none of x's bits, and an Exist(x) on the
\* visible pair that returns without error returns false.
C4_GoneAfterTwoRotations ==
    \A x \in Items :
        (lastAdd[x] # Never /\ rots >= lastAdd[x] + 2) =>
          /\ ~Holds(bits[pair.current], x)
          /\ \A c \in Callers :
               (Returned(c, "Exist") /\ call[c].x = x /\ call[c].p = pair)
                 => ~call[c].res

\* C4 witness: Add(x) returned nil, two rotations completed after it, and an
\* Exist(x) on the visible pair returned false without error.
C4_Witness ==
    \E c, d \in Callers :
        /\ Returned(d, "Add") /\ call[d].ret = Nil /\ rots >= call[d].retAt + 2
        /\ Returned(c, "Exist") /\ call[c].x = call[d].x /\ call[c].p = pair
        /\ call[c].ret = Nil /\ ~call[c].res

\* C5: an Add whose write to current failed has returned that very error and
\* has issued no write to next.
C5_FailFast ==
    \A c \in Callers :
        (call[c].op = "Add" /\ call[c].err # Nil) =>
          /\ call[c].pc = "idle"
          /\ call[c].err = ErrOf(call[c].p.current)
          /\ call[c].ret = call[c].err
          /\ call[c].wnext = Nil

\* C5 witness: an Add returned the error of its write to current, which had
\* applied part of its batch.
C5_Witness ==
    \E c \in Callers :
        /\ Returned(c, "Add") /\ call[c].err # Nil /\ call[c].ret = call[c].err
        /\ bits[call[c].p.current] # {}

\* C6: an Add whose write to current succeeded and whose write to next failed
\* returns next's error and leaves x in current; an Exist(x) that then loads
\* the same pair and meets no I/O error returns true.
C6_PartialApply ==
    \A c \in Callers :
        /\ (Returned(c, "Add") /\ call[c].err = Nil /\ call[c].ret # Nil) =>
             /\ call[c].ret = ErrOf(call[c].p.next)
             /\ call[c].wcur = call[c].p.current
             /\ Holds(bits[call[c].p.current], call[c].x)
        /\ (Returned(c, "Exist") /\ call[c].seenPart /\ call[c].ret = Nil)
             => call[c].res

\* C6 witness: an Exist returned true for an item whose Add returned an error.
C6_Witness ==
    \E c, d \in Callers :
        /\ Returned(d, "Add") /\ call[d].err = Nil /\ call[d].ret # Nil
        /\ ~Holds(bits[call[d].p.next], call[d].x)
        /\ Returned(c, "Exist") /\ call[c].seenPart /\ call[c].ret = Nil
        /\ call[c].x = call[d].x /\ call[c].res

\* C7: a rotate() whose genFilter fails returns the error with the pair, the
\* filters and the Store history untouched, and handleRotating goes back to
\* arming a new timer: it neither retries at once nor stops.
C7_FailedRotationSkipped ==
    [][(rotpc = "gen" /\ rotpc' # "gen") =>
         IF rotErr'
         THEN /\ pair' = pair /\ stored' = stored /\ rots' = rots
              /\ nFilters' = nFilters /\ bits' = bits
              /\ rotpc' = "arm"
         ELSE rotpc' = "load"]_vars

\* C7 witness: a rotate() has returned an error after an earlier rotation
\* succeeded, and handleRotating is back at the head of its loop.
C7_Witness == rotErr /\ rotpc = "arm" /\ rots = 1 /\ pair = FilterPair(2, 3)

\* C8: when genFilterPair failed, NewRotator has returned the error: nothing
\* was stored, the rotation goroutine was not started and no caller holds a
\* Rotator.
C8_ConstructionFails ==
    /\ ctorErr =>
         /\ ctor = "failed"
         /\ pair = NoPair /\ stored = {}
         /\ rotpc = "off"
         /\ nCalls = 0
    /\ ctor = "failed" => ctorErr

\* C8 witness: the construction of next failed after current had been built.
C8_Witness == ctorErr /\ ctor = "failed" /\ nFilters = 1

\* C9: once the rotation goroutine runs or NewRotator has returned, the
\* initial pair {first filter, built with isNext = false; second filter,
\* built with isNext = true} has been stored, and every Load saw a pair with
\* both filters set.
C9_PairSetBeforeUse ==
    (rotpc # "off" \/ ctor = "returned") =>
      /\ FilterPair(1, 2) \in stored
      /\ ~isNext[1] /\ isNext[2]
      /\ pair # NoPair /\ pair.current # Nil /\ pair.next # Nil
      /\ rotpc # "panic"
      /\ rotpc = "store" => (oldPair.current # Nil /\ oldPair.next # Nil)
      /\ \A c \in Callers :
           call[c].op # "none" =>
             /\ call[c].pc # "panic"
             /\ call[c].p.current # Nil /\ call[c].p.next # Nil

\* C9 witness: rotate() and a caller have both loaded the initial pair.
C9_Witness ==
    /\ rotpc = "store" /\ oldPair = FilterPair(1, 2)
    /\ \E c \in Callers : call[c].pc = "add_cur" /\ call[c].p = FilterPair(1, 2)

\* C10 as stated: from the cancellation on, the visible pair never changes
\* and the select never starts a rotation.
C10_FrozenAtCancel ==
    [][cancelled => (pair' = pair /\ ~(rotpc = "select" /\ rotpc' = "gen"))]_vars

\* C10 amended: the loop stops only at its select and only when cancelled; a
\* select that finds the context done and the timer not fired stops; once
\* stopped the goroutine stays stopped, builds no filter and the visible pair
\* never changes; and a running loop whose context is cancelled eventually
\* stops.
C10_StoppedIsFinal ==
    /\ [][/\ (rotpc' = "stopped" /\ rotpc # "stopped") =>
               (cancelled /\ rotpc = "select")
          /\ (cancelled /\ rotpc = "select" /\ timer # "fired" /\ rotpc' # rotpc) =>
               rotpc' = "stopped"
          /\ rotpc = "stopped" =>
               (rotpc' = "stopped" /\ pair' = pair /\ nFilters' = nFilters)]_vars
    /\ (cancelled /\ rotpc # "off") ~> (rotpc = "stopped")

\* C10 witness: the loop has stopped after at least one rotation, and an Add
\* that loaded the last pair has returned nil with no rotation after it.
C10_Witness ==
    /\ rotpc = "stopped" /\ rots >= 1
    /\ \E c \in Callers :
         Returned(c, "Add") /\ call[c].ret = Nil /\ call[c].p = pair
           /\ call[c].retAt = rots

\* C16: the visible pairs form a chain.  Every change of a set pair replaces
\* P by {current: P.next, next: f}, f being the filter that rotation has just
\* built with IsNextFilter = true; current and next of a pair are distinct;
\* a filter is next in exactly one pair and current in at most one, the pair
\* that follows; and the current of a replaced pair is in no later pair.
C16_PairChain ==
    /\ [](/\ \A p \in stored : p.current # p.next /\ isNext[p.next]
          /\ \A p, q \in stored :
               (p.next = q.next \/ p.current = q.current) => p = q
          /\ \A q \in stored :
               q = FilterPair(1, 2) \/ \E p \in stored : q.current = p.next
          /\ \A p \in stored :
               p # pair => p.current \notin {pair.current, pair.next}
          /\ pair # NoPair => Cardinality(stored) = rots + 1)
    /\ [][(pair' # pair /\ pair # NoPair) =>
             /\ pair' = FilterPair(pair.next, newF)
             /\ newF = nFilters /\ isNext[newF]
             /\ \A p \in stored : newF \notin {p.current, p.next}]_vars

\* C16 witness: two rotations have made a chain of three pairs.
C16_Witness ==
    /\ rots = 2
    /\ stored = {FilterPair(1, 2), FilterPair(2, 3), FilterPair(3, 4)}
    /\ pair = FilterPair(3, 4)

\* C17: only the rotation goroutine stores into the pair after construction,
\* one rotate() at a time.  While rotate() is between its Load and its Store
\* the visible pair is still the pair it loaded; the pair changes only by
\* NewRotator's Store and by rotate()'s Store, which builds on the pair
\* visible at that moment; no Store is lost.
C17_SingleWriter ==
    /\ []((rotpc = "store" => oldPair = pair)
          /\ (pair # NoPair => Cardinality(stored) = rots + 1))
    /\ [][pair' # pair =>
             IF pair = NoPair
             THEN ctor = "built" /\ ctor' = "stored" /\ rots' = rots
             ELSE /\ rotpc = "store" /\ rotpc' = "arm"
                  /\ pair' = NewPair(pair, newF)
                  /\ rots' = rots + 1]_vars

\* C17 witness: the second rotate() is between its Load and its Store while
\* a caller is in the middle of an Add.
C17_Witness ==
    /\ rotpc = "store" /\ rots = 1 /\ oldPair = FilterPair(2, 3)
    /\ \E c \in Callers : call[c].pc = "add_next"

\* C20: without expiry, every bit set in the next filter of the visible pair
\* is set in its current filter, so next holds no item that current lacks.
C20_NextWithinCurrent ==
    pair # NoPair =>
      /\ bits[pair.next] \subseteq bits[pair.current]
      /\ \A x \in Items : Holds(bits[pair.next], x) => Holds(bits[pair.current], x)

\* C20 witness: after a rotation the next filter of the visible pair holds an
\* item, and an Add has failed.
C20_Witness ==
    /\ rots = 1
    /\ \E x \in Items : Holds(bits[pair.next], x)
    /\ \E c \in Callers : Returned(c, "Add") /\ call[c].ret # Nil

\* C11: whenever the loop has armed its timer, at the instant armedAt with
\* frequency freq, the target is a multiple of freq with
\* armedAt < target <= armedAt + freq, the smallest multiple of freq after
\* armedAt; a loop arming at any other instant of the same window gets the
\* same target; and rotate() is called at the target.
C11_NextBoundary ==
    armedAt # Never =>
      /\ target % freq = 0
      /\ armedAt < target /\ target <= armedAt + freq
      /\ \A u \in 0..(MaxClock + MaxFreq) :
           (u % freq = 0 /\ u > armedAt) => target <= u
      /\ \A t \in 0..MaxClock :
           Truncate(t, freq) = Truncate(armedAt, freq) =>
             TimerTarget(t, freq) = target
      /\ rotpc = "gen" => clock = target

\* C11 witness: a Rotator started off a boundary makes its first rotation at
\* the next boundary, before a whole frequency has passed.
C11_Witness ==
    /\ rotpc = "gen" /\ rots = 0
    /\ armedAt % freq # 0
    /\ clock = target /\ target < armedAt + freq

\* C19: with a TTL of twice the frequency, no filter of the visible pair has
\* an expired bit vector, whether rotations fail or the loop is cancelled.
C19_LiveWhileVisible ==
    pair # NoPair => ~Expired(pair.current) /\ ~Expired(pair.next)

\* C12: a CheckBits call that follows a successful SetBits(P) on the same
\* BitStore, with the key not expired since and with no I/O error of its own,
\* returns true for every non-empty list whose positions are congruent
\* modulo M to positions of P; and a SetBits call only adds bits.
C12_CheckAfterSet ==
    /\ [](last.op = "SetBits" => last.saw \subseteq last.after)
    /\ [][(/\ last.op = "SetBits" /\ ~last.err /\ last.live
           /\ last'.op = "CheckBits" /\ last'.s = last.s /\ ~last'.err
           /\ Len(last'.locs) > 0
           /\ Fold(last'.locs) \subseteq Fold(last.locs)) => last'.ok]_vars

\* C13: CheckBits of the empty list returns (true, nil) and makes no round
\* trip, whatever the backend holds.
C13_EmptyCheck ==
    (last.op = "CheckBits" /\ Len(last.locs) = 0) =>
      last.ok /\ ~last.err /\ last.trips = 0

\* C13 witness: CheckBits of the empty list has returned true on a BitStore
\* whose key the backend does not hold.
C13_Witness ==
    /\ last.op = "CheckBits" /\ Len(last.locs) = 0 /\ last.ok
    /\ ~remote[last.key].exists

\* C14: CheckBits of a non-empty list makes one round trip; with no error it
\* returns true exactly when every addressed bit, at p % M, was 1; with an
\* error it returns false; and it leaves the bits as they were.
C14_CheckBitsResult ==
    (last.op = "CheckBits" /\ Len(last.locs) > 0) =>
      /\ last.trips = 1
      /\ last.err => ~last.ok
      /\ ~last.err =>
           (last.ok <=> \A i \in 1..Len(last.locs) : (last.locs[i] % M) \in last.saw)
      /\ last.after = last.saw

\* C14 witness: CheckBits of two positions has returned false without an
\* error because only the first of them was set.
C14_Witness ==
    /\ last.op = "CheckBits" /\ Len(last.locs) = 2 /\ ~last.err /\ ~last.ok
    /\ (last.locs[1] % M) \in last.saw
    /\ (last.locs[2] % M) \notin last.saw

\* C15: two BitStores never have the same remote key.
C15_KeysDistinct ==
    \A s, t \in Stores :
        (s # t /\ redis[s].key # NoKey /\ redis[t].key # NoKey) =>
          redis[s].key # redis[t].key

\* C18: the key of a BitStore that NewRedis returned with RedisSetExpireTTL
\* carries a timeout whenever the backend holds it.
C18_LiveKeyHasExpiry ==
    \A s \in Stores :
        (redis[s].pc = "ready" /\ redis[s].opt /\ remote[redis[s].key].exists) =>
          remote[redis[s].key].ttl
====
